---- MODULE Spec2Model ----
(***************************************************************************)
(* Model of collector/mdadm.go: the /proc/mdstat parser (parseMdstat,      *)
(* evalStatusline, evalBuildline) and the collection pass                  *)
(* (mdadmCollector.Update).                                                *)
(*                                                                         *)
(* A Go string is a sequence of one-character strings; a Go slice index k  *)
(* (0-based) is position k+1 of the corresponding sequence.                *)
(***************************************************************************)
EXTENDS Integers, Sequences, FiniteSets

\* ---------------------------------------------------------------------
\* String literals of the source
\* ---------------------------------------------------------------------
\* "Personalities"
sPersonalities == <<"P", "e", "r", "s", "o", "n", "a", "l", "i", "t", "i", "e", "s">>
\* "unused"
sUnused == <<"u", "n", "u", "s", "e", "d">>
\* "active"
sActive == <<"a", "c", "t", "i", "v", "e">>
\* "bitmap"
sBitmap == <<"b", "i", "t", "m", "a", "p">>
\* "recovery"
sRecovery == <<"r", "e", "c", "o", "v", "e", "r", "y">>
\* "resync"
sResync == <<"r", "e", "s", "y", "n", "c">>
\* " blocks "
sBlocks == <<" ", "b", "l", "o", "c", "k", "s", " ">>
\* "9223372036854775807"
sMaxInt64 == <<"9", "2", "2", "3", "3", "7", "2", "0", "3", "6", "8", "5", "4", "7", "7", "5", "8", "0", "7">>

\* ---------------------------------------------------------------------
\* Lines of status reports the inputs are made of
\* ---------------------------------------------------------------------
\* ""
lBlank == <<>>
\* "Personalities : [raid1]"
lPers == <<"P", "e", "r", "s", "o", "n", "a", "l", "i", "t", "i", "e", "s", " ", ":", " ", "[", "r", "a", "i", "d", "1", "]">>
\* "unused devices: <none>"
lUnused == <<"u", "n", "u", "s", "e", "d", " ", "d", "e", "v", "i", "c", "e", "s", ":", " ", "<", "n", "o", "n", "e", ">">>
\* "md0 : active raid1 sdb1[1]"
lMd0 == <<"m", "d", "0", " ", ":", " ", "a", "c", "t", "i", "v", "e", " ", "r", "a", "i", "d", "1", " ", "s", "d", "b", "1", "[", "1", "]">>
\* "md1 : inactive sdc1[0]"
lMd1 == <<"m", "d", "1", " ", ":", " ", "i", "n", "a", "c", "t", "i", "v", "e", " ", "s", "d", "c", "1", "[", "0", "]">>
\* "md2 :"
lShort == <<"m", "d", "2", " ", ":">>
\* "      1953511936 blocks [2/1] [U_]"
lStat == <<" ", " ", " ", " ", " ", " ", "1", "9", "5", "3", "5", "1", "1", "9", "3", "6", " ", "b", "l", "o", "c", "k", "s", " ", "[", "2", "/", "1", "]", " ", "[", "U", "_", "]">>
\* "  9 blocks [2/2] [UU]"
lStat2 == <<" ", " ", "9", " ", "b", "l", "o", "c", "k", "s", " ", "[", "2", "/", "2", "]", " ", "[", "U", "U", "]">>
\* "  bitmap: 1/1 pages"
lBitmap == <<" ", " ", "b", "i", "t", "m", "a", "p", ":", " ", "1", "/", "1", " ", "p", "a", "g", "e", "s">>
\* "  recovery = 45% (878780416/1953511936)"
lRecov == <<" ", " ", "r", "e", "c", "o", "v", "e", "r", "y", " ", "=", " ", "4", "5", "%", " ", "(", "8", "7", "8", "7", "8", "0", "4", "1", "6", "/", "1", "9", "5", "3", "5", "1", "1", "9", "3", "6", ")">>
\* "  resync = 1% (3/9) (5/9)"
lResync2 == <<" ", " ", "r", "e", "s", "y", "n", "c", " ", "=", " ", "1", "%", " ", "(", "3", "/", "9", ")", " ", "(", "5", "/", "9", ")">>
\* "  resync=PENDING"
lPending == <<" ", " ", "r", "e", "s", "y", "n", "c", "=", "P", "E", "N", "D", "I", "N", "G">>
\* "  7 blocks [2/2] [3/1] [U_]"
lExtra == <<" ", " ", "7", " ", "b", "l", "o", "c", "k", "s", " ", "[", "2", "/", "2", "]", " ", "[", "3", "/", "1", "]", " ", "[", "U", "_", "]">>
\* "  blocks [2/2] [UU]"
lNoCount == <<" ", " ", "b", "l", "o", "c", "k", "s", " ", "[", "2", "/", "2", "]", " ", "[", "U", "U", "]">>
\* "6 blocks [1/1] [U]"
lBare == <<"6", " ", "b", "l", "o", "c", "k", "s", " ", "[", "1", "/", "1", "]", " ", "[", "U", "]">>
\* "  99999999999999999999 blocks [1/1] [U]"
lOver == <<" ", " ", "9", "9", "9", "9", "9", "9", "9", "9", "9", "9", "9", "9", "9", "9", "9", "9", "9", "9", "9", "9", " ", "b", "l", "o", "c", "k", "s", " ", "[", "1", "/", "1", "]", " ", "[", "U", "]">>

\* ---------------------------------------------------------------------
\* package strings, strconv and regexp, as the parser uses them
\* ---------------------------------------------------------------------
Digits == {"0", "1", "2", "3", "4", "5", "6", "7", "8", "9"}

UChars == {"U", "_"}

\* The literal lit occurs in s at position p.
LitAt(s, p, lit) ==
    /\ p >= 1
    /\ p + Len(lit) - 1 <= Len(s)
    /\ \A k \in 1..Len(lit) : s[p + k - 1] = lit[k]

\* The character c is at position p of s.
CharAt(s, p, c) == p >= 1 /\ p <= Len(s) /\ s[p] = c

\* The position after the longest run of characters of set S that starts at p
\* (p itself when the run is empty): a greedy S* at p.
RunEnd(s, p, S) ==
    IF p > Len(s) THEN p
    ELSE CHOOSE e \in p..(Len(s) + 1) :
            /\ \A q \in p..(e - 1) : s[q] \in S
            /\ (e = Len(s) + 1 \/ s[e] \notin S)

\* strings.HasPrefix
HasPrefix(s, prefix) == LitAt(s, 1, prefix)

\* strings.Contains
Contains(s, substr) == \E p \in 1..(Len(s) + 1) : LitAt(s, p, substr)

\* strings.Split(s, sep) for a one-character separator: the pieces between
\* the occurrences of sep, one more piece than there are separators.
Split(s, sep) ==
    LET at == {p \in 1..Len(s) : s[p] = sep}
        n  == Cardinality(at)
        \* position of the m-th separator; 0 before the first piece and
        \* Len(s)+1 after the last one
        pos(m) == IF m = 0 THEN 0
                  ELSE IF m = n + 1 THEN Len(s) + 1
                  ELSE CHOOSE p \in at : Cardinality({q \in at : q < p}) = m - 1
    IN  [m \in 1..(n + 1) |-> SubSeq(s, pos(m - 1) + 1, pos(m) - 1)]

\* The numeral without its leading zeros.
RECURSIVE StripZeros(_)
StripZeros(d) ==
    IF Len(d) > 1 /\ d[1] = "0" THEN StripZeros(Tail(d)) ELSE d

DigitVal(c) == CHOOSE v \in 0..9 : <<"0", "1", "2", "3", "4", "5", "6", "7", "8", "9">>[v + 1] = c

\* a <= b for two numerals of the same length, digit by digit
RECURSIVE NumeralLeq(_, _)
NumeralLeq(a, b) ==
    IF a = <<>> THEN TRUE
    ELSE IF DigitVal(a[1]) < DigitVal(b[1]) THEN TRUE
    ELSE IF DigitVal(a[1]) > DigitVal(b[1]) THEN FALSE
    ELSE NumeralLeq(Tail(a), Tail(b))

\* strconv.ParseInt(d, 10, 64) succeeds on a non-empty run of digits whose
\* value is at most 2^63-1 (a range error otherwise).
ParseIntOK(d) ==
    LET z == StripZeros(d) IN
    /\ d # <<>>
    /\ \A k \in 1..Len(d) : d[k] \in Digits
    /\ \/ Len(z) < Len(sMaxInt64)
       \/ Len(z) = Len(sMaxInt64) /\ NumeralLeq(z, sMaxInt64)

\* The value strconv.ParseInt returns when it succeeds.
RECURSIVE ParseIntVal(_)
ParseIntVal(d) ==
    IF d = <<>> THEN 0
    ELSE 10 * ParseIntVal(SubSeq(d, 1, Len(d) - 1)) + DigitVal(d[Len(d)])

\* \[(\d+)/(\d+)\] \[[U_]+\] matched at position p: whether it matches,
\* its two captures and the position after the match.
BracketMatch(s, p) ==
    LET e1 == RunEnd(s, p + 1, Digits)
        e2 == RunEnd(s, e1 + 1, Digits)
        e3 == RunEnd(s, e2 + 3, UChars)
    IN  [ok  |-> /\ CharAt(s, p, "[")
                 /\ e1 > p + 1
                 /\ CharAt(s, e1, "/")
                 /\ e2 > e1 + 1
                 /\ CharAt(s, e2, "]")
                 /\ CharAt(s, e2 + 1, " ")
                 /\ CharAt(s, e2 + 2, "[")
                 /\ e3 > e2 + 3
                 /\ CharAt(s, e3, "]"),
         c2  |-> SubSeq(s, p + 1, e1 - 1),
         c3  |-> SubSeq(s, e1 + 1, e2 - 1),
         end |-> e3 + 1]

\* (\d+) blocks .*<bracket groups> can match starting at position st.
StatusMatchAt(s, st) ==
    LET e == RunEnd(s, st, Digits) IN
    /\ e > st
    /\ LitAt(s, e, sBlocks)
    /\ \E p \in (e + Len(sBlocks))..Len(s) : BracketMatch(s, p).ok

\* statuslineRE.FindStringSubmatch: nil (the empty sequence) without a match,
\* else the leftmost match and its three captures. The greedy .* leaves the
\* bracket groups at the last position where they match.
statuslineRE(s) ==
    LET starts == {st \in 1..Len(s) : StatusMatchAt(s, st)} IN
    IF starts = {} THEN <<>>
    ELSE LET st == CHOOSE x \in starts : \A y \in starts : x <= y
             e  == RunEnd(s, st, Digits)
             ps == {p \in (e + Len(sBlocks))..Len(s) : BracketMatch(s, p).ok}
             p  == CHOOSE x \in ps : \A y \in ps : x >= y
             b  == BracketMatch(s, p)
         IN  <<SubSeq(s, st, b.end - 1), SubSeq(s, st, e - 1), b.c2, b.c3>>

\* \((\d+)/\d+\) matched at position p.
RatioMatch(s, p) ==
    LET e1 == RunEnd(s, p + 1, Digits)
        e2 == RunEnd(s, e1 + 1, Digits)
    IN  [ok  |-> /\ CharAt(s, p, "(")
                 /\ e1 > p + 1
                 /\ CharAt(s, e1, "/")
                 /\ e2 > e1 + 1
                 /\ CharAt(s, e2, ")"),
         c1  |-> SubSeq(s, p + 1, e1 - 1),
         end |-> e2 + 1]

\* buildlineRE.FindStringSubmatch: nil without a match, else the leftmost
\* match and its capture.
buildlineRE(s) ==
    LET ps == {p \in 1..Len(s) : RatioMatch(s, p).ok} IN
    IF ps = {} THEN <<>>
    ELSE LET p == CHOOSE x \in ps : \A y \in ps : x <= y
             r == RatioMatch(s, p)
         IN  <<SubSeq(s, p, r.end - 1), r.c1>>

\* ---------------------------------------------------------------------
\* Errors: the kind of failure, the text the message names (a line or a
\* device), and how many "error parsing <file>: " prefixes wrap it
\* ---------------------------------------------------------------------
Nil == [kind |-> "nil", arg |-> <<>>, wrap |-> 0]

Errorf(kind, arg) == [kind |-> kind, arg |-> arg, wrap |-> 0]

\* fmt.Errorf("error parsing %s: %s", statusfile, err)
WrapParsing(e) == [e EXCEPT !.wrap = @ + 1]

\* A run-time panic (index out of range), which no caller recovers.
RuntimePanic == [kind |-> "panic", arg |-> <<>>, wrap |-> 0]

\* type mdStatus, built by a positional literal: the k-th value becomes the
\* k-th declared field.
mdStatus(f1, f2, f3, f4, f5, f6) ==
    [mdName |-> f1, isActive |-> f2, disksActive |-> f3,
     disksTotal |-> f4, blocksTotal |-> f5, blocksSynced |-> f6]

\* Go's slice index k is in range.
InRange(ls, k) == k >= 0 /\ k < Len(ls)

\* lines[k] for an index in range
At(ls, k) == ls[k + 1]

\* ---------------------------------------------------------------------
\* evalStatusline and evalBuildline
\* ---------------------------------------------------------------------
\* len(matches) < 3+1
TooFewStatusMatches(n) == n < 3 + 1

\* len(matches) > 3+1
TooManyStatusMatches(n) == n > 3 + 1

\* Fault: the two disk counts returned in each other's place.
StatuslineReturn_Swapped(size, total, active) == <<total, active, size, Nil>>

\* The successful return of evalStatusline: (active, total, size, nil).
StatuslineReturn(size, total, active) == <<active, total, size, Nil>>

\* evalStatusline after the match: matches is what FindStringSubmatch
\* returned. Reading matches[1..3] of a shorter slice panics.
StatuslineMatched(statusline, matches) ==
    IF TooFewStatusMatches(Len(matches))
      THEN <<0, 0, 0, Errorf("too few matches found in statusline", statusline)>>
    ELSE IF TooManyStatusMatches(Len(matches))
      THEN <<0, 0, 0, Errorf("too many matches found in statusline", statusline)>>
    ELSE IF ~InRange(matches, 3)
      THEN <<0, 0, 0, RuntimePanic>>
    ELSE IF ~ParseIntOK(At(matches, 1))
      THEN <<0, 0, 0, Errorf("ParseInt failed in statusline", statusline)>>
    ELSE IF ~ParseIntOK(At(matches, 2))
      THEN <<0, 0, 0, Errorf("ParseInt failed in statusline", statusline)>>
    ELSE IF ~ParseIntOK(At(matches, 3))
      THEN <<0, 0, 0, Errorf("ParseInt failed in statusline", statusline)>>
    ELSE StatuslineReturn(ParseIntVal(At(matches, 1)), ParseIntVal(At(matches, 2)),
                          ParseIntVal(At(matches, 3)))

\* evalStatusline(statusline): <<active, total, size, err>>.
evalStatusline(statusline) ==
    StatuslineMatched(statusline, statuslineRE(statusline))

\* len(matches) < 1+1
TooFewBuildMatches(n) == n < 1 + 1

\* len(matches) > 1+1
TooManyBuildMatches(n) == n > 1 + 1

\* evalBuildline after the match.
BuildlineMatched(buildline, matches) ==
    IF TooFewBuildMatches(Len(matches))
      THEN <<0, Errorf("too few matches found in buildline", buildline)>>
    ELSE IF TooManyBuildMatches(Len(matches))
      THEN <<0, Errorf("too many matches found in buildline", buildline)>>
    ELSE IF ~InRange(matches, 1)
      THEN <<0, RuntimePanic>>
    ELSE IF ~ParseIntOK(At(matches, 1))
      THEN <<0, Errorf("ParseInt failed in buildline", buildline)>>
    ELSE <<ParseIntVal(At(matches, 1)), Nil>>

\* evalBuildline(buildline): <<syncedSize, err>>.
evalBuildline(buildline) ==
    BuildlineMatched(buildline, buildlineRE(buildline))

\* ---------------------------------------------------------------------
\* parseMdstat: one iteration of the loop over the lines
\* ---------------------------------------------------------------------
\* l == "": an entirely empty line
IsEmptyLine(l) == l = <<>>

\* Fault: the test for a leading space left out.
StartsWithSpace_Never(l) == FALSE

\* l[0] == ' ': the line is not the beginning of a md-section
StartsWithSpace(l) == At(l, 0) = " "

\* strings.HasPrefix(l, "Personalities") || strings.HasPrefix(l, "unused")
IsGeneralInfo(l) == HasPrefix(l, sPersonalities) \/ HasPrefix(l, sUnused)

\* Fault: the token count checked one too low.
TooFewTokens_OffByOne(n) == n < 2

\* len(mainLine) < 3
TooFewTokens(n) == n < 3

\* Fault: the line count checked one too low.
FewerLines_OffByOne(n, i) == n <= i + 2

\* len(lines) <= i+3: the entry has fewer lines than expected.
FewerLines(n, i) == n <= i + 3

\* The index of the syncing line: after the bitmap line when there is one.
SyncLineIndex(ls, i) ==
    IF Contains(At(ls, i + 2), sBitmap) THEN i + 3 ELSE i + 2

\* The line says the device is syncing.
IsSyncing(l) == Contains(l, sRecovery) \/ Contains(l, sResync)

\* Fault: syncedBlocks left at its zero value.
NotSyncingBlocks_Zero(size) == 0

\* The number of synced blocks of a device that is not syncing.
NotSyncingBlocks(size) == size

\* Fault: the new record put in front.
AppendState_Prepend(states, md) == <<md>> \o states

\* mdStates = append(mdStates, ...)
AppendState(states, md) == Append(states, md)

\* What one iteration of the loop does:
\*   next      "continue" | "return" | "panic"
\*   err       the error returned ("return")
\*   add       the records appended (none or one)
\*   header    the line is taken as the beginning of a md-section
\*   used      the lines read by lookahead, each with the role it was read in
Outcome(n, e, a, h, u) ==
    [next |-> n, err |-> e, add |-> a, header |-> h, used |-> u]

\* The section's lines are read; sync is what evalBuildline returned, or the
\* size with no error for a device that is not syncing.
SectionDone(currentMD, isActive, st, sync, u) ==
    IF sync[2].kind = "panic" THEN Outcome("panic", RuntimePanic, <<>>, TRUE, u)
    ELSE IF sync[2] # Nil THEN Outcome("return", WrapParsing(sync[2]), <<>>, TRUE, u)
    ELSE Outcome("continue", Nil,
                 <<mdStatus(currentMD, isActive, st[1], st[2], st[3], sync[1])>>,
                 TRUE, u)

\* From the syncing line's index j on.
SyncLine(ls, i, currentMD, isActive, st, j) ==
    IF ~InRange(ls, j)
      THEN Outcome("panic", RuntimePanic, <<>>, TRUE, {<<i + 1, "status">>})
    ELSE IF IsSyncing(At(ls, j))
      THEN SectionDone(currentMD, isActive, st, evalBuildline(At(ls, j)),
                       {<<i + 1, "status">>, <<j, "build">>}
                           \cup {<<x, "bitmap">> : x \in (i + 2)..(j - 1)})
    ELSE SectionDone(currentMD, isActive, st, <<NotSyncingBlocks(st[3]), Nil>>,
                     {<<i + 1, "status">>}
                         \cup {<<x, "bitmap">> : x \in (i + 2)..(j - 1)})

\* From the result st of evalStatusline on.
StatusLine(ls, i, currentMD, isActive, st) ==
    IF st[4].kind = "panic"
      THEN Outcome("panic", RuntimePanic, <<>>, TRUE, {<<i + 1, "status">>})
    ELSE IF st[4] # Nil
      THEN Outcome("return", WrapParsing(st[4]), <<>>, TRUE, {<<i + 1, "status">>})
    ELSE IF ~InRange(ls, i + 2)
      THEN Outcome("panic", RuntimePanic, <<>>, TRUE, {<<i + 1, "status">>})
    ELSE SyncLine(ls, i, currentMD, isActive, st, SyncLineIndex(ls, i))

\* From the split of the header line on.
MainLine(ls, i, l, mainLine) ==
    IF TooFewTokens(Len(mainLine))
      THEN Outcome("return", Errorf("error parsing mdline", l), <<>>, TRUE, {})
    ELSE IF ~InRange(mainLine, 2)
      THEN Outcome("panic", RuntimePanic, <<>>, TRUE, {})
    ELSE IF FewerLines(Len(ls), i)
      THEN Outcome("return",
                   WrapParsing(Errorf("entry has fewer lines than expected",
                                      At(mainLine, 0))),
                   <<>>, TRUE, {})
    ELSE IF ~InRange(ls, i + 1)
      THEN Outcome("panic", RuntimePanic, <<>>, TRUE, {})
    ELSE StatusLine(ls, i, At(mainLine, 0), At(mainLine, 2) = sActive,
                    evalStatusline(At(ls, i + 1)))

\* The loop body for line l at index i.
LoopLine(ls, i, l) ==
    IF IsEmptyLine(l) THEN Outcome("continue", Nil, <<>>, FALSE, {})
    ELSE IF ~InRange(l, 0) THEN Outcome("panic", RuntimePanic, <<>>, FALSE, {})
    ELSE IF StartsWithSpace(l) THEN Outcome("continue", Nil, <<>>, FALSE, {})
    ELSE IF IsGeneralInfo(l) THEN Outcome("continue", Nil, <<>>, FALSE, {})
    ELSE MainLine(ls, i, l, Split(l, " "))

LoopBody(ls, i) == LoopLine(ls, i, At(ls, i))

\* ---------------------------------------------------------------------
\* Inputs: the status texts a collection pass may find
\* ---------------------------------------------------------------------
\* The most pieces a status text is made of.
MaxFrags == 2

\* Pieces of status reports: whole device sections, well-formed and not,
\* and single lines.
Fragments ==
    { <<lPers>>, <<lUnused>>, <<lBlank>>,
      <<lMd0, lStat2, lBlank>>,
      <<lMd1, lStat, lBitmap, lRecov, lBlank>>,
      <<lMd0, lStat, lRecov, lBlank>>,
      <<lMd0, lStat2, lBitmap>>,
      <<lMd0>>, <<lShort>>, <<lStat2>>, <<lRecov>>,
      <<lMd1, lExtra, lBlank>>,
      <<lMd0, lStat2, lResync2, lBlank>>,
      <<lMd0, lStat2, lPending, lBlank>>,
      <<lMd0, lNoCount, lBlank>>,
      <<lMd1, lBare, lBlank>>,
      <<lMd1, lBare, lStat2, lBlank, lBlank>>,
      <<lMd0, lOver, lBlank>> }

RECURSIVE Flatten(_)
Flatten(ss) == IF ss = <<>> THEN <<>> ELSE Head(ss) \o Flatten(Tail(ss))

\* The lines joined by newlines: the text whose lines they are.
RECURSIVE JoinLines(_)
JoinLines(ls) ==
    IF ls = <<>> THEN <<>>
    ELSE IF Len(ls) = 1 THEN ls[1]
    ELSE ls[1] \o <<"\n">> \o JoinLines(Tail(ls))

Texts ==
    {JoinLines(Flatten(fs)) : fs \in UNION {[1..n -> Fragments] : n \in 0..MaxFrags}}

\* ---------------------------------------------------------------------
\* The collection pass: mdadmCollector.Update calling parseMdstat
\* ---------------------------------------------------------------------
VARIABLES
    fileExists,  \* the status file is there
    content,     \* its text
    pc,          \* where the pass is: "stat", "read", "scan", "parsed",
                 \* "emit", "done", or "panic" after a run-time panic
    lines,       \* parseMdstat: lines
    i,           \* parseMdstat: the loop index
    mdStates,    \* parseMdstat: mdStates
    parseErr,    \* parseMdstat: the error it returns
    mdstate,     \* Update: mdstate
    k,           \* Update: how many records of mdstate have been sent
    err,         \* Update: the error it returns
    ch,          \* the observations sent to the channel, in order
    hdrAt,       \* history: the line indexes taken as beginning a md-section
    used,        \* history: the line indexes read by lookahead, with their role
    recLine,     \* history: for each record of mdStates, its header's index
    errLine,     \* history: the index of the line parseMdstat failed at, or -1
    sawAbsent    \* history: the file was absent when the pass looked for it

vars == <<fileExists, content, pc, lines, i, mdStates, parseErr, mdstate, k,
          err, ch, hdrAt, used, recLine, errLine, sawAbsent>>

parserVars == <<lines, i, mdStates, parseErr, hdrAt, used, recLine, errLine>>

Init ==
    /\ content \in Texts
    /\ fileExists \in BOOLEAN
    /\ pc = "stat"
    /\ lines = <<>>
    /\ i = 0
    /\ mdStates = <<>>
    /\ parseErr = Nil
    /\ mdstate = <<>>
    /\ k = 0
    /\ err = Nil
    /\ ch = <<>>
    /\ hdrAt = {}
    /\ used = {}
    /\ recLine = <<>>
    /\ errLine = -1
    /\ sawAbsent = FALSE

\* The environment removes the status file (an array is stopped, the md
\* module unloaded) while the pass has not read it yet.
Remove ==
    /\ pc \in {"stat", "read"}
    /\ fileExists
    /\ fileExists' = FALSE
    /\ UNCHANGED <<content, pc, mdstate, k, err, ch, sawAbsent>>
    /\ UNCHANGED parserVars

\* os.Stat(statusfile) and the two tests of its error.
Stat ==
    /\ pc = "stat"
    /\ \/ /\ ~fileExists               \* os.IsNotExist(err): return nil
          /\ pc' = "done"
          /\ err' = Nil
          /\ sawAbsent' = TRUE
       \/ /\ fileExists                \* another error: return err
          /\ pc' = "done"
          /\ err' = Errorf("stat failed", <<>>)
          /\ UNCHANGED sawAbsent
       \/ /\ fileExists
          /\ pc' = "read"
          /\ UNCHANGED <<err, sawAbsent>>
    /\ UNCHANGED <<fileExists, content, mdstate, k, ch>>
    /\ UNCHANGED parserVars

\* parseMdstat: ioutil.ReadFile, and the split into lines.
ReadFile ==
    /\ pc = "read"
    /\ \/ /\ ~fileExists
          /\ pc' = "parsed"
          /\ parseErr' = WrapParsing(Errorf("no such file or directory", <<>>))
          /\ sawAbsent' = TRUE
          /\ UNCHANGED lines
       \/ /\ fileExists
          /\ pc' = "parsed"
          /\ parseErr' = WrapParsing(Errorf("read failed", <<>>))
          /\ UNCHANGED <<lines, sawAbsent>>
       \/ /\ fileExists
          /\ pc' = "scan"
          /\ lines' = Split(content, "\n")
          /\ UNCHANGED <<parseErr, sawAbsent>>
    /\ UNCHANGED <<fileExists, content, i, mdStates, mdstate, k, err, ch,
                   hdrAt, used, recLine, errLine>>

\* The effect of one iteration with outcome r on parseMdstat's variables.
ScanResult(r) ==
    /\ pc' = CASE r.next = "continue" -> "scan"
               [] r.next = "return"   -> "parsed"
               [] r.next = "panic"    -> "panic"
    /\ i' = IF r.next = "continue" THEN i + 1 ELSE i
    /\ parseErr' = r.err
    /\ mdStates' = IF r.add = <<>> THEN mdStates ELSE AppendState(mdStates, r.add[1])
    /\ recLine' = IF r.add = <<>> THEN recLine ELSE Append(recLine, i)
    /\ hdrAt' = IF r.header THEN hdrAt \cup {i} ELSE hdrAt
    /\ used' = used \cup r.used
    /\ errLine' = IF r.next = "return" THEN i ELSE errLine

\* parseMdstat: the loop body at line i.
ScanLine ==
    /\ pc = "scan"
    /\ i < Len(lines)
    /\ ScanResult(LoopBody(lines, i))
    /\ UNCHANGED <<fileExists, content, lines, mdstate, k, err, ch, sawAbsent>>

\* parseMdstat: the loop is over, return mdStates, nil.
ParseReturn ==
    /\ pc = "scan"
    /\ i = Len(lines)
    /\ pc' = "parsed"
    /\ parseErr' = Nil
    /\ UNCHANGED <<fileExists, content, lines, i, mdStates, mdstate, k, err,
                   ch, hdrAt, used, recLine, errLine, sawAbsent>>

\* Fault: the error ignored when some devices were parsed.
UpdateAborts_OnlyWhenEmpty(e, states) == e # Nil /\ states = <<>>

\* Update gives up on the result of parseMdstat: err != nil.
UpdateAborts(e, states) == e # Nil

\* Update: mdstate, err := parseMdstat(statusfile), and the test of err.
CheckParse ==
    /\ pc = "parsed"
    /\ mdstate' = mdStates
    /\ IF UpdateAborts(parseErr, mdStates)
         THEN pc' = "done" /\ err' = WrapParsing(parseErr)
         ELSE pc' = "emit" /\ UNCHANGED err
    /\ UNCHANGED <<fileExists, content, k, ch, sawAbsent>>
    /\ UNCHANGED parserVars

\* float64(x) of an int64: exact for |x| <= 2^53, which holds of every
\* number of this model (they are below 2^31).
Float64(x) == x

\* prometheus.MustNewConstMetric(desc, prometheus.GaugeValue, value, label),
\* desc named by the variable that holds it
ConstMetric(desc, value, label) == [desc |-> desc, value |-> value, label |-> <<label>>]

\* Fault: the two disk counts sent under each other's description.
Sends_DisksSwapped(mds) ==
    LET isActiveFloat == IF mds.isActive THEN 1 ELSE 0 IN
    << ConstMetric("isActiveDesc", isActiveFloat, mds.mdName),
       ConstMetric("disksActiveDesc", Float64(mds.disksTotal), mds.mdName),
       ConstMetric("disksTotalDesc", Float64(mds.disksActive), mds.mdName),
       ConstMetric("blocksTotalDesc", Float64(mds.blocksTotal), mds.mdName),
       ConstMetric("blocksSyncedDesc", Float64(mds.blocksSynced), mds.mdName) >>

\* The five sends of one iteration of Update's loop.
Sends(mds) ==
    LET isActiveFloat == IF mds.isActive THEN 1 ELSE 0 IN
    << ConstMetric("isActiveDesc", isActiveFloat, mds.mdName),
       ConstMetric("disksActiveDesc", Float64(mds.disksActive), mds.mdName),
       ConstMetric("disksTotalDesc", Float64(mds.disksTotal), mds.mdName),
       ConstMetric("blocksTotalDesc", Float64(mds.blocksTotal), mds.mdName),
       ConstMetric("blocksSyncedDesc", Float64(mds.blocksSynced), mds.mdName) >>

\* Update: one iteration of the loop over mdstate.
Emit ==
    /\ pc = "emit"
    /\ k < Len(mdstate)
    /\ ch' = ch \o Sends(mdstate[k + 1])
    /\ k' = k + 1
    /\ UNCHANGED <<fileExists, content, pc, mdstate, err, sawAbsent>>
    /\ UNCHANGED parserVars

\* Update: the loop is over, return nil.
Return ==
    /\ pc = "emit"
    /\ k = Len(mdstate)
    /\ pc' = "done"
    /\ err' = Nil
    /\ UNCHANGED <<fileExists, content, mdstate, k, ch, sawAbsent>>
    /\ UNCHANGED parserVars

Next ==
    \/ Remove
    \/ Stat
    \/ ReadFile
    \/ ScanLine
    \/ ParseReturn
    \/ CheckParse
    \/ Emit
    \/ Return

Spec == Init /\ [][Next]_vars

\* ---------------------------------------------------------------------
\* Properties
\* ---------------------------------------------------------------------
\* The file was read and split, and parseMdstat returned without an error.
ParseSucceeded ==
    /\ pc \in {"parsed", "emit", "done"}
    /\ lines # <<>>
    /\ parseErr = Nil

\* parseMdstat returned (with or without an error) after reading the file.
ParseReturned == pc \in {"parsed", "emit", "done"} /\ lines # <<>>

\* A device header line in the sense of the specification: not empty, not
\* starting with a space, not beginning with "Personalities" or "unused".
IsDeviceHeaderLine(l) ==
    /\ l # <<>>
    /\ l[1] # " "
    /\ ~HasPrefix(l, sPersonalities)
    /\ ~HasPrefix(l, sUnused)

HeaderIndexes(ls) == {x \in 0..(Len(ls) - 1) : IsDeviceHeaderLine(At(ls, x))}

\* The text of a line up to its first space.
FirstToken(l) == SubSeq(l, 1, RunEnd(l, 1, {l[x] : x \in 1..Len(l)} \ {" "}) - 1)

Range(f) == {f[x] : x \in DOMAIN f}

\* The index of the line examined as syncing line for the header at index h.
LookaheadIndex(ls, h) == IF Contains(At(ls, h + 2), sBitmap) THEN h + 3 ELSE h + 2

\* C1: when parseMdstat succeeds, the records are, in order, one per device
\* header line of the text: as many records as header lines, the n-th record
\* made from the n-th header line and named by its first token.
C1_OneRecordPerHeaderInOrder ==
    ParseSucceeded =>
        /\ Len(mdStates) = Cardinality(HeaderIndexes(lines))
        /\ Len(recLine) = Len(mdStates)
        /\ \A n \in 1..Len(mdStates) :
              /\ recLine[n] \in HeaderIndexes(lines)
              /\ n < Len(mdStates) => recLine[n] < recLine[n + 1]
              /\ mdStates[n].mdName = FirstToken(At(lines, recLine[n]))

\* Two devices of different names parsed from a text that also has lines
\* the scan passes over.
C1_Witness ==
    /\ ParseSucceeded
    /\ Len(mdStates) = 2
    /\ mdStates[1].mdName # mdStates[2].mdName
    /\ Len(lines) > Cardinality(HeaderIndexes(lines))

\* C2: parseMdstat never panics: every line read by lookahead is a line of
\* the text, and a scan that stops before the last line returns an error.
C2_NeverPanics ==
    /\ pc # "panic"
    /\ \A u \in used : u[1] >= 0 /\ u[1] < Len(lines)
    /\ (ParseReturned /\ i < Len(lines)) => parseErr # Nil

\* The lookahead reached the last line of the text (index i+3, after a
\* bitmap line), and elsewhere inputs are rejected.
C2_Witness ==
    /\ ParseSucceeded
    /\ \E u \in used : u[2] = "build" /\ u[1] = Len(lines) - 1
    /\ \E u \in used : u[2] = "bitmap"

\* C3: when parseMdstat fails, Update sends nothing and returns an error,
\* also when parseMdstat returned records along with the error.
C3_NoPartialEmission ==
    /\ parseErr # Nil => ch = <<>>
    /\ (pc = "done" /\ parseErr # Nil) => err # Nil

\* A pass that ended with an error after one device had been parsed.
C3_Witness ==
    /\ pc = "done"
    /\ parseErr # Nil
    /\ errLine >= 0
    /\ Len(mdstate) >= 1

\* The number of bracketed ratio groups "[N/M]" of a line.
BracketRatios(l) ==
    {p \in 1..Len(l) :
        /\ CharAt(l, p, "[")
        /\ RunEnd(l, p + 1, Digits) > p + 1
        /\ CharAt(l, RunEnd(l, p + 1, Digits), "/")
        /\ RunEnd(l, RunEnd(l, p + 1, Digits) + 1, Digits) > RunEnd(l, p + 1, Digits) + 1
        /\ CharAt(l, RunEnd(l, RunEnd(l, p + 1, Digits) + 1, Digits), "]")}

\* The number of parenthesized ratios "(N/M)" of a line.
ParenRatios(l) == {p \in 1..Len(l) : RatioMatch(l, p).ok}

\* C4: capture-count strictness: no record is made from a status line with
\* an extra bracketed ratio group, nor from a build line with two
\* parenthesized ratios.
C4_CaptureCountStrict ==
    \A n \in 1..Len(recLine) :
        /\ Cardinality(BracketRatios(At(lines, recLine[n] + 1))) <= 1
        /\ \A u \in used :
              (u[2] = "build" /\ u[1] = LookaheadIndex(lines, recLine[n]))
                  => Cardinality(ParenRatios(At(lines, u[1]))) <= 1

\* C5: sync-complete invariant: a record whose lookahead line (index h+2, or
\* h+3 after a bitmap line) has neither "recovery" nor "resync" has
\* blocksSynced = blocksTotal; otherwise blocksSynced is the capture of that
\* build line.
C5_SyncComplete ==
    \A n \in 1..Len(mdStates) :
        LET l == At(lines, LookaheadIndex(lines, recLine[n])) IN
        IF Contains(l, sRecovery) \/ Contains(l, sResync)
          THEN /\ buildlineRE(l) # <<>>
               /\ mdStates[n].blocksSynced = ParseIntVal(buildlineRE(l)[2])
          ELSE mdStates[n].blocksSynced = mdStates[n].blocksTotal

\* A device that is not syncing, and one that is recovering after a bitmap
\* line, with fewer blocks synced than it has.
C5_Witness ==
    /\ ParseSucceeded
    /\ \E n \in 1..Len(mdStates) :
          /\ ~IsSyncing(At(lines, LookaheadIndex(lines, recLine[n])))
          /\ mdStates[n].blocksSynced = mdStates[n].blocksTotal
    /\ \E n \in 1..Len(mdStates) :
          /\ LookaheadIndex(lines, recLine[n]) = recLine[n] + 3
          /\ mdStates[n].blocksSynced < mdStates[n].blocksTotal

\* C6: missing-file tolerance: a pass that found the status file absent, at
\* os.Stat or at ioutil.ReadFile, returns nil and sends nothing.
C6_MissingFileTolerance ==
    (pc = "done" /\ sawAbsent) => (err = Nil /\ ch = <<>>)

\* The five observations of a record: description and value.
Observations(mds) ==
    << <<"isActiveDesc", IF mds.isActive THEN 1 ELSE 0>>,
       <<"disksActiveDesc", mds.disksActive>>,
       <<"disksTotalDesc", mds.disksTotal>>,
       <<"blocksTotalDesc", mds.blocksTotal>>,
       <<"blocksSyncedDesc", mds.blocksSynced>> >>

\* C7: after a successful parse of N records Update has sent, when it
\* returns, exactly 5*N observations: record by record, the five in their
\* order, each labelled with the device name alone; nothing for N = 0; and
\* it returns nil.
C7_FivePerDevice ==
    /\ (pc \in {"emit", "done"} /\ ParseSucceeded) =>
          /\ mdstate = mdStates
          /\ Len(ch) = 5 * (IF pc = "done" THEN Len(mdStates) ELSE k)
          /\ \A n \in 1..Len(mdStates) : \A e \in 1..5 :
                5 * (n - 1) + e <= Len(ch) =>
                    LET o == ch[5 * (n - 1) + e] IN
                    /\ o.desc = Observations(mdStates[n])[e][1]
                    /\ o.value = Observations(mdStates[n])[e][2]
                    /\ o.label = <<mdStates[n].mdName>>
    /\ (pc = "done" /\ ParseSucceeded) => err = Nil

\* A pass that sent ten observations for an active and an inactive device.
C7_Witness ==
    /\ pc = "done"
    /\ Len(ch) = 10
    /\ mdstate[1].isActive # mdstate[2].isActive
    /\ mdstate[1].disksActive # mdstate[1].disksTotal
         \/ mdstate[2].disksActive # mdstate[2].disksTotal

\* C8: field-to-position mapping: blocksTotal is the status line's first
\* capture, disksTotal its second and disksActive its third; the status line
\* "1953511936 blocks [2/1] [U_]" gives blocksTotal 1953511936, disksTotal 2
\* and disksActive 1.
C8_FieldMapping ==
    \A n \in 1..Len(mdStates) :
        LET l == At(lines, recLine[n] + 1)
            m == statuslineRE(l)
        IN  /\ Len(m) = 4
            /\ mdStates[n].blocksTotal = ParseIntVal(m[2])
            /\ mdStates[n].disksTotal = ParseIntVal(m[3])
            /\ mdStates[n].disksActive = ParseIntVal(m[4])
            /\ l = lStat =>
                  /\ mdStates[n].blocksTotal = 1953511936
                  /\ mdStates[n].disksTotal = 2
                  /\ mdStates[n].disksActive = 1

\* A record made from the example status line.
C8_Witness ==
    /\ ParseSucceeded
    /\ \E n \in 1..Len(mdStates) :
          /\ At(lines, recLine[n] + 1) = lStat
          /\ mdStates[n].disksTotal = 2
          /\ mdStates[n].disksActive = 1

\* C9 as stated: no line read by lookahead as a status, bitmap or build line
\* is taken as a device header.
C9_ConsumedLineNeverHeader ==
    \A u \in used : u[1] \notin hdrAt

\* C9 amended: the scan goes on at the line after the header, and a line
\* read by lookahead is taken as a device header exactly when it is not
\* empty, does not start with a space and is not a line of general
\* information; a consumed line that starts with a space never is.
C9_ConsumedHeaderIffUnindented ==
    \A u \in used :
        /\ u[1] \in hdrAt => IsDeviceHeaderLine(At(lines, u[1]))
        /\ (u[1] < i /\ IsDeviceHeaderLine(At(lines, u[1]))) => u[1] \in hdrAt

\* The scan has passed a consumed, indented status line and made a record.
C9_Witness ==
    /\ mdStates # <<>>
    /\ \E u \in used :
          /\ u[2] = "status"
          /\ u[1] < i
          /\ At(lines, u[1])[1] = " "
          /\ u[1] \notin hdrAt

\* parseMdstat returned the error of a truncated entry, raised at index h.
TruncatedAt(h) ==
    /\ parseErr.kind = "entry has fewer lines than expected"
    /\ errLine = h

\* C10: a device header at index h with fewer than 3 lines after it makes
\* parseMdstat return the truncation error naming the device, with no record
\* for it and its status line not evaluated; with 3 lines or more after it
\* that error is not raised for it.
C10_TruncatedSection ==
    \A h \in hdrAt :
        Len(Split(At(lines, h), " ")) >= 3 =>
            IF Len(lines) - (h + 1) < 3
              THEN /\ TruncatedAt(h)
                   /\ parseErr.arg = FirstToken(At(lines, h))
                   /\ h \notin Range(recLine)
                   /\ <<h + 1, "status">> \notin used
              ELSE ~TruncatedAt(h)

\* The last device's status line is well-formed and followed only by the
\* final newline.
C10_Witness ==
    /\ pc = "parsed"
    /\ lines = <<lMd0, lStat2, lBlank>>
    /\ TruncatedAt(0)
    /\ mdStates = <<>>

====
